---- MODULE Spec2Model ----
(***************************************************************************)
(* ghpx v1.0.2: a drop-in npx wrapper.  One invocation of main() is a run  *)
(* from Invoke to the exit of the process; invocations follow one another  *)
(* on the same filesystem.  Tokens are sequences of one-character strings, *)
(* paths are sequences of segments, the filesystem is the set of existing  *)
(* paths.                                                                  *)
(***************************************************************************)
EXTENDS Integers, Sequences, FiniteSets, TLC

VARIABLES
    win32,      \* process.platform === 'win32', fixed for a behaviour
    fs,         \* the set of existing paths (directories and files)
    pc,         \* "idle", "main", "install" (execSync blocks), "child" (spawned), "exited"
    args,       \* process.argv.slice(2) of the current invocation
    events,     \* what the current invocation did so far, in order
    installs    \* history: entry directory |-> the latest install that ran in it

vars == <<win32, fs, pc, args, events, installs>>

----------------------------------------------------------------------------
(* Bounds of the model *)

MaxArgs == 3        \* longest RawInvocation
MaxExit == 2        \* largest exit code a child reports
MaxTokenLen == 6    \* longest token handed to parsePackage on its own
MaxFlagArgs == 3    \* longest RawInvocation handed to extractNpmFlags on its own

----------------------------------------------------------------------------
(* Strings *)

StartsWith(s, p) == Len(s) >= Len(p) /\ SubSeq(s, 1, Len(p)) = p

Includes(s, sub) ==
    \E i \in 1..(Len(s) - Len(sub) + 1) : SubSeq(s, i, i + Len(sub) - 1) = sub

\* 1-based index of the first occurrence of character c in s at or after from; 0 if none
IndexOfFrom(s, c, from) ==
    LET hits == {i \in from..Len(s) : s[i] = c}
    IN  IF hits = {} THEN 0 ELSE CHOOSE i \in hits : \A j \in hits : i <= j

\* s.split(c): the pieces of s between the occurrences of character c
RECURSIVE Split(_, _)
Split(s, c) ==
    LET k == IndexOfFrom(s, c, 1)
    IN  IF k = 0 THEN <<s>>
        ELSE <<SubSeq(s, 1, k - 1)>> \o Split(SubSeq(s, k + 1, Len(s)), c)

\* the tokens of the model, spelled out
T_acme_tool   == <<"@","a","c","m","e","/","t","o","o","l">>
T_acme_latest == <<"@","a","c","m","e","/","t","o","o","l","@","l","a","t","e","s","t">>
T_up_x        == <<"@",".",".","/","x">>
T_flag        == <<"-","-","f","l","a","g">>
T_x           == <<"x">>
T_c           == <<"-","c">>
T_clear       == <<"-","-","g","h","p","x","-","c","l","e","a","r","-","c","a","c","h","e">>
T_version     == <<"-","-","g","h","p","x","-","v","e","r","s","i","o","n">>

Tokens ==
    {T_acme_tool, T_acme_latest, T_up_x, T_flag, T_x, T_c, T_clear, T_version}

RECURSIVE SeqsUpTo(_, _)
SeqsUpTo(S, n) ==
    IF n = 0 THEN {<<>>}
    ELSE LET shorter == SeqsUpTo(S, n - 1)
         IN  shorter \cup {Append(q, t) : q \in {r \in shorter : Len(r) = n - 1}, t \in S}

Invocations == SeqsUpTo(Tokens, MaxArgs)

----------------------------------------------------------------------------
(* extractNpmFlags *)

flagsWithValues ==
    { <<"-","p">>, <<"-","-","p","a","c","k","a","g","e">>,
      <<"-","c">>, <<"-","-","c","a","l","l">>,
      <<"-","-","n","p","m">>, <<"-","-","n","o","d","e","-","a","r","g">>,
      <<"-","w">>, <<"-","-","w","o","r","k","s","p","a","c","e">>,
      <<"-","-","l","o","g","l","e","v","e","l">> }

standaloneFlags ==
    { <<"-","y">>, <<"-","-","y","e","s">>, <<"-","n">>, <<"-","-","n","o">>,
      <<"-","-","n","o","-","i","n","s","t","a","l","l">>,
      <<"-","-","i","g","n","o","r","e","-","e","x","i","s","t","i","n","g">>,
      <<"-","q">>, <<"-","-","q","u","i","e","t">>, <<"-","-","s","i","l","e","n","t">>,
      <<"-","d">>, <<"-","d","d">>, <<"-","d","d","d">>,
      <<"-","-","v","e","r","b","o","s","e">>,
      <<"-","-","w","o","r","k","s","p","a","c","e","s">>,
      <<"-","-","i","n","c","l","u","d","e","-","w","o","r","k","s","p","a","c","e","-","r","o","o","t">> }

LoglevelEq == <<"-","-","l","o","g","l","e","v","e","l","=">>

\* variant of the loop: the value of a takes-value flag is skipped (i += 2)
\* and never pushed
RECURSIVE extractLoopDropsValue(_, _, _, _)
extractLoopDropsValue(a, i, npmFlags, remainingArgs) ==
    IF i > Len(a) THEN [npmFlags |-> npmFlags, remainingArgs |-> remainingArgs]
    ELSE IF a[i] \in flagsWithValues
         THEN extractLoopDropsValue(a, i + 2, Append(npmFlags, a[i]), remainingArgs)
    ELSE IF a[i] \in standaloneFlags \/ StartsWith(a[i], LoglevelEq)
         THEN extractLoopDropsValue(a, i + 1, Append(npmFlags, a[i]), remainingArgs)
    ELSE extractLoopDropsValue(a, i + 1, npmFlags, Append(remainingArgs, a[i]))

\* variant of the loop: a takes-value flag does not take a following token
\* that begins with "-"
RECURSIVE extractLoopKeepsDashValue(_, _, _, _)
extractLoopKeepsDashValue(a, i, npmFlags, remainingArgs) ==
    IF i > Len(a) THEN [npmFlags |-> npmFlags, remainingArgs |-> remainingArgs]
    ELSE IF a[i] \in flagsWithValues
         THEN IF i + 1 <= Len(a) /\ ~StartsWith(a[i + 1], <<"-">>)
              THEN extractLoopKeepsDashValue(a, i + 2, npmFlags \o <<a[i], a[i + 1]>>,
                                             remainingArgs)
              ELSE extractLoopKeepsDashValue(a, i + 1, Append(npmFlags, a[i]),
                                             remainingArgs)
    ELSE IF a[i] \in standaloneFlags \/ StartsWith(a[i], LoglevelEq)
         THEN extractLoopKeepsDashValue(a, i + 1, Append(npmFlags, a[i]), remainingArgs)
    ELSE extractLoopKeepsDashValue(a, i + 1, npmFlags, Append(remainingArgs, a[i]))

\* the loop of extractNpmFlags from (1-based) position i on, with the two
\* accumulators it pushes to
RECURSIVE extractLoop(_, _, _, _)
extractLoop(a, i, npmFlags, remainingArgs) ==
    IF i > Len(a) THEN [npmFlags |-> npmFlags, remainingArgs |-> remainingArgs]
    ELSE IF a[i] \in flagsWithValues
         THEN IF i + 1 <= Len(a)
              THEN extractLoop(a, i + 2, npmFlags \o <<a[i], a[i + 1]>>, remainingArgs)
              ELSE extractLoop(a, i + 1, Append(npmFlags, a[i]), remainingArgs)
    ELSE IF a[i] \in standaloneFlags \/ StartsWith(a[i], LoglevelEq)
         THEN extractLoop(a, i + 1, Append(npmFlags, a[i]), remainingArgs)
    ELSE extractLoop(a, i + 1, npmFlags, Append(remainingArgs, a[i]))

extractNpmFlags(a) == extractLoop(a, 1, <<>>, <<>>)

----------------------------------------------------------------------------
(* findPackageArg: the 1-based position of the first token that does not   *)
(* start with "-", 0 for null; the JavaScript index is this minus one      *)

findPackageArg(a) ==
    LET hits == {i \in 1..Len(a) : ~StartsWith(a[i], <<"-">>)}
    IN  IF hits = {} THEN 0 ELSE CHOOSE i \in hits : \A j \in hits : i <= j

----------------------------------------------------------------------------
(* parsePackage: /^@([^/]+)\/([^@]+)(@.+)?$/ *)

NoMatch == [matched |-> FALSE]

\* variant of parsePackage: the scope keeps the leading "@" (match[0] sliced
\* instead of match[1])
parsePackageScopeWithAt(packageArg) ==
    LET slash == IndexOfFrom(packageArg, "/", 1)
        rest  == SubSeq(packageArg, slash + 1, Len(packageArg))
        at    == IndexOfFrom(rest, "@", 1)
        name  == IF at = 0 THEN rest ELSE SubSeq(rest, 1, at - 1)
        ver   == IF at = 0 THEN <<>> ELSE SubSeq(rest, at, Len(rest))
    IN  IF /\ Len(packageArg) >= 1
           /\ packageArg[1] = "@"
           /\ slash >= 3
           /\ Len(name) >= 1
           /\ (at = 0 \/ Len(ver) >= 2)
        THEN [matched |-> TRUE,
              scope |-> SubSeq(packageArg, 1, slash - 1),
              pkgNameWithVersion |-> name \o ver,
              binName |-> name,
              fullPackage |-> packageArg]
        ELSE NoMatch

parsePackage(packageArg) ==
    LET slash == IndexOfFrom(packageArg, "/", 1)
        rest  == SubSeq(packageArg, slash + 1, Len(packageArg))
        at    == IndexOfFrom(rest, "@", 1)
        name  == IF at = 0 THEN rest ELSE SubSeq(rest, 1, at - 1)
        ver   == IF at = 0 THEN <<>> ELSE SubSeq(rest, at, Len(rest))
    IN  IF /\ Len(packageArg) >= 1
           /\ packageArg[1] = "@"
           /\ slash >= 3                      \* ([^/]+) then the first "/"
           /\ Len(name) >= 1                  \* ([^@]+)
           /\ (at = 0 \/ Len(ver) >= 2)       \* (@.+)? up to the end
        THEN [matched |-> TRUE,
              scope |-> SubSeq(packageArg, 2, slash - 1),
              pkgNameWithVersion |-> name \o ver,
              binName |-> name,
              fullPackage |-> packageArg]
        ELSE NoMatch

----------------------------------------------------------------------------
(* Paths: path.join joins its arguments with "/" and normalises the result *)

Home        == <<"~">>                \* os.homedir(), one segment under the root
CacheName   == <<".","g","h","p","x","-","c","a","c","h","e">>
NodeModules == <<"n","o","d","e","_","m","o","d","u","l","e","s">>
DotBin      == <<".","b","i","n">>
PackageJson == <<"p","a","c","k","a","g","e",".","j","s","o","n">>
DotCmd      == <<".","c","m","d">>
Dot         == <<".">>
DotDot      == <<".",".">>

\* path.normalize on a list of segments: "" and "." vanish, ".." removes the
\* segment before it (and vanishes at the root of an absolute path)
RECURSIVE normalize(_, _)
normalize(done, todo) ==
    IF todo = <<>> THEN done
    ELSE LET seg == Head(todo)
         IN  IF seg = <<>> \/ seg = Dot THEN normalize(done, Tail(todo))
             ELSE IF seg = DotDot
                  THEN normalize(IF done = <<>> THEN done
                                 ELSE SubSeq(done, 1, Len(done) - 1), Tail(todo))
             ELSE normalize(Append(done, seg), Tail(todo))

\* path.join(dir, part): dir is a normalised absolute path, part a string
pathJoin(dir, part) == normalize(dir, Split(part, "/"))

getCacheDir == pathJoin(<<Home>>, CacheName)

getInstallDir(scope, pkgName) ==
    LET at          == IndexOfFrom(pkgName, "@", 1)
        basePkgName == IF at = 0 THEN pkgName ELSE SubSeq(pkgName, 1, at - 1)
    IN  pathJoin(pathJoin(getCacheDir, scope), basePkgName)

----------------------------------------------------------------------------
(* The filesystem *)

IsPrefix(p, q) == Len(p) <= Len(q) /\ SubSeq(q, 1, Len(p)) = p

Prefixes(p) == {SubSeq(p, 1, n) : n \in 1..Len(p)}

existsSync(f, p) == p \in f

\* fs.mkdirSync(p, {recursive: true})
mkdirSync(f, p) == f \cup Prefixes(p)

\* fs.writeFileSync(p, ...)
writeFileSync(f, p) == f \cup {p}

\* variant of rmSync: empties the directory and leaves the directory itself
rmSyncContents(f, p) == {q \in f : ~IsPrefix(p, q) \/ q = p}

\* fs.rmSync(p, {recursive: true, force: true})
rmSync(f, p) == {q \in f : ~IsPrefix(p, q)}

AtLatest == <<"@","l","a","t","e","s","t">>

\* variant of needsInstall: a populated entry is always fresh
needsInstallDirOnly(f, installDir, packageArg) ==
    ~existsSync(f, pathJoin(installDir, NodeModules))

needsInstall(f, installDir, packageArg) ==
    LET nodeModulesPath == pathJoin(installDir, NodeModules)
    IN  IF ~existsSync(f, nodeModulesPath) THEN TRUE
        ELSE IF Includes(packageArg, AtLatest) THEN TRUE
        ELSE FALSE

NoPath == <<>>      \* findBinary's null: no binary lives at the root

\* variant of findBinary: the plain path is returned without the existsSync
findBinaryUnchecked(f, installDir, binName) ==
    LET binDir  == pathJoin(pathJoin(installDir, NodeModules), DotBin)
        cmdPath == pathJoin(binDir, binName \o DotCmd)
    IN  IF win32 /\ existsSync(f, cmdPath) THEN cmdPath ELSE pathJoin(binDir, binName)

findBinary(f, installDir, binName) ==
    LET binDir  == pathJoin(pathJoin(installDir, NodeModules), DotBin)
        cmdPath == pathJoin(binDir, binName \o DotCmd)
        binPath == pathJoin(binDir, binName)
    IN  IF win32 /\ existsSync(f, cmdPath) THEN cmdPath
        ELSE IF existsSync(f, binPath) THEN binPath
        ELSE NoPath

\* the flags installPackage appends to "npm install <packageArg>"
IsInstallFlag(t) ==
    \/ t \in { <<"-","-","v","e","r","b","o","s","e">>, <<"-","d">>, <<"-","d","d">>,
               <<"-","d","d","d">>, <<"-","q">>, <<"-","-","q","u","i","e","t">>,
               <<"-","-","s","i","l","e","n","t">> }
    \/ StartsWith(t, <<"-","-","l","o","g","l","e","v","e","l">>)

installFlags(npmFlags) == SelectSeq(npmFlags, IsInstallFlag)

----------------------------------------------------------------------------
(* What main() computes from the arguments before it touches anything *)

remainingOf(a) == extractNpmFlags(a).remainingArgs

npmFlagsOf(a)  == extractNpmFlags(a).npmFlags

packageIndex(a) == findPackageArg(remainingOf(a))

parsedOf(a) ==
    IF packageIndex(a) = 0 THEN NoMatch ELSE parsePackage(remainingOf(a)[packageIndex(a)])

installDirOf(a) == getInstallDir(parsedOf(a).scope, parsedOf(a).pkgNameWithVersion)

binDirOf(a) == pathJoin(pathJoin(installDirOf(a), NodeModules), DotBin)

IsSelfFlag(t) == t = T_version \/ t = T_clear

FirstIsSelfFlag(a) == Len(a) > 0 /\ IsSelfFlag(a[1])

\* past the empty-argument and self-flag returns of main
Classified(a) == Len(a) > 0 /\ ~IsSelfFlag(a[1])

----------------------------------------------------------------------------
(* Events of an invocation *)

NullCode == -1      \* the null that 'close' reports for a child killed by a signal

Stdout(m)       == [op |-> "stdout", msg |-> m]
Stderr(m, d)    == [op |-> "stderr", msg |-> m, data |-> d]
ExitEv(c)       == [op |-> "exit", code |-> c]

npxCmd == IF win32 THEN <<"n","p","x",".","c","m","d">> ELSE <<"n","p","x">>

\* spawn(npxCmd, args, {stdio: 'inherit', shell: win32})
SpawnNpx(a)       == [op |-> "spawn", target |-> "npx", cmd |-> npxCmd, args |-> a,
                      shell |-> win32]

\* spawn(binPath, args, {stdio: 'inherit', shell: win32})
SpawnBinary(b, a) == [op |-> "spawn", target |-> "binary", path |-> b, args |-> a,
                      shell |-> win32]

\* variant of closeStatus: process.exit(code ? 1 : 0)
closeStatusFlag(code) == IF code = NullCode \/ code = 0 THEN 0 ELSE 1

\* process.exit(code || 0) in the 'close' handlers
closeStatus(code) == IF code = NullCode \/ code = 0 THEN 0 ELSE code

\* variant of binaryArgs: args.slice(1), as when the specifier had to come first
binaryArgsAfterFirst(a) == SubSeq(a, 2, Len(a))

\* the slice of remainingArgs that main hands to runBinary
binaryArgs(a) == SubSeq(remainingOf(a), packageIndex(a) + 1, Len(remainingOf(a)))

\* main from findBinary on: lines 212-220, on filesystem f after events evs
LocateAndRun(f, evs) ==
    LET binPath == findBinary(f, installDirOf(args), parsedOf(args).binName)
    IN  IF binPath = NoPath
        THEN /\ events' = evs \o << Stderr("binary-not-found", parsedOf(args).binName),
                                    Stderr("looked-in", binDirOf(args)),
                                    ExitEv(1) >>
             /\ pc' = "exited"
        ELSE /\ events' = Append(evs, SpawnBinary(binPath, binaryArgs(args)))
             /\ pc' = "child"

----------------------------------------------------------------------------
(* The caller starts the program with an argument list *)

Start ==
    /\ pc = "idle"
    /\ args' \in Invocations
    /\ pc' = "main"
    /\ UNCHANGED <<win32, installs, fs, events>>

\* the process is gone; the filesystem stays for the next invocation
Reap ==
    /\ pc = "exited"
    /\ pc' = "idle"
    /\ args' = <<>>
    /\ events' = <<>>
    /\ UNCHANGED <<win32, installs, fs>>

----------------------------------------------------------------------------
(* main(), one action per path to its first blocking point *)

\* args.length === 0
MainEmpty ==
    /\ pc = "main"
    /\ Len(args) = 0
    /\ events' = <<SpawnNpx(args)>>
    /\ pc' = "child"
    /\ UNCHANGED <<win32, installs, fs, args>>

\* args[0] === '--ghpx-version'
MainVersion ==
    /\ pc = "main"
    /\ Len(args) > 0 /\ args[1] = T_version
    /\ events' = <<Stdout("version"), ExitEv(0)>>
    /\ pc' = "exited"
    /\ UNCHANGED <<win32, installs, fs, args>>

\* args[0] === '--ghpx-clear-cache': clearCache(), process.exit(0)
MainClearCache ==
    /\ pc = "main"
    /\ Len(args) > 0 /\ args[1] = T_clear
    /\ IF existsSync(fs, getCacheDir)
       THEN /\ fs' = rmSync(fs, getCacheDir)
            /\ events' = << [op |-> "rm", path |-> getCacheDir],
                            Stdout("cache-cleared"), ExitEv(0) >>
       ELSE /\ fs' = fs
            /\ events' = <<Stdout("cache-does-not-exist"), ExitEv(0)>>
    /\ pc' = "exited"
    /\ UNCHANGED <<win32, installs, args>>

\* variant of MainNoCandidate: passToNpx(remainingArgs)
MainNoCandidateRemaining ==
    /\ pc = "main"
    /\ Classified(args)
    /\ packageIndex(args) = 0
    /\ events' = <<SpawnNpx(remainingOf(args))>>
    /\ pc' = "child"
    /\ UNCHANGED <<win32, installs, fs, args>>

\* findPackageArg(remainingArgs) is null
MainNoCandidate ==
    /\ pc = "main"
    /\ Classified(args)
    /\ packageIndex(args) = 0
    /\ events' = <<SpawnNpx(args)>>
    /\ pc' = "child"
    /\ UNCHANGED <<win32, installs, fs, args>>

\* variant of MainNotScoped: passToNpx(remainingArgs)
MainNotScopedRemaining ==
    /\ pc = "main"
    /\ Classified(args)
    /\ packageIndex(args) # 0
    /\ ~parsedOf(args).matched
    /\ events' = <<SpawnNpx(remainingOf(args))>>
    /\ pc' = "child"
    /\ UNCHANGED <<win32, installs, fs, args>>

\* parsePackage(packageInfo.value) is null
MainNotScoped ==
    /\ pc = "main"
    /\ Classified(args)
    /\ packageIndex(args) # 0
    /\ ~parsedOf(args).matched
    /\ events' = <<SpawnNpx(args)>>
    /\ pc' = "child"
    /\ UNCHANGED <<win32, installs, fs, args>>

\* scoped, needsInstall is true: installPackage up to the blocking execSync
MainInstall ==
    /\ pc = "main"
    /\ Classified(args)
    /\ parsedOf(args).matched
    /\ needsInstall(fs, installDirOf(args), parsedOf(args).fullPackage)
    /\ LET installDir  == installDirOf(args)
           pkgJsonPath == pathJoin(installDir, PackageJson)
           packageArg  == parsedOf(args).fullPackage
       IN  /\ fs' = writeFileSync(mkdirSync(fs, installDir), pkgJsonPath)
           /\ events' = << [op |-> "needsInstall", result |-> TRUE],
                           Stderr("installing", packageArg),
                           [op |-> "mkdir", path |-> installDir],
                           [op |-> "write", path |-> pkgJsonPath],
                           [op |-> "exec", cwd |-> installDir,
                            cmd |-> <<packageArg>> \o installFlags(npmFlagsOf(args))] >>
    /\ pc' = "install"
    /\ UNCHANGED <<win32, installs, args>>

\* scoped, needsInstall is false: straight to findBinary
MainCached ==
    /\ pc = "main"
    /\ Classified(args)
    /\ parsedOf(args).matched
    /\ ~needsInstall(fs, installDirOf(args), parsedOf(args).fullPackage)
    /\ LocateAndRun(fs, << [op |-> "needsInstall", result |-> FALSE] >>)
    /\ UNCHANGED <<win32, installs, fs, args>>

----------------------------------------------------------------------------
(* The external installer: "npm install <packageArg> <flags>" run by       *)
(* execSync in the cache entry.  It is opaque: it exits zero or non-zero   *)
(* and leaves what it leaves in the entry's node_modules.                  *)

\* the executables of binName in node_modules/.bin: the script, and on
\* Windows the .cmd wrapper beside it
binFiles(installDir, binName) ==
    LET binDir == pathJoin(pathJoin(installDir, NodeModules), DotBin)
    IN  {pathJoin(binDir, binName)} \cup
        (IF win32 THEN {pathJoin(binDir, binName \o DotCmd)} ELSE {})

\* no install has run yet
NoInstalls == [d \in {} |-> [packageArg |-> <<>>, ok |-> FALSE]]

\* the history after an install of packageArg in installDir has exited
Recorded(h, installDir, packageArg, ok) ==
    [d \in DOMAIN h \cup {installDir} |->
        IF d = installDir THEN [packageArg |-> packageArg, ok |-> ok] ELSE h[d]]

\* execSync returns: the install exited zero; main goes on to findBinary.
\* The package installed may or may not have an executable named binName.
InstallExitsZero ==
    /\ pc = "install"
    /\ \E hasBin \in BOOLEAN :
         LET mine      == binFiles(installDirOf(args), parsedOf(args).binName)
             populated == (mkdirSync(fs, binDirOf(args)) \ mine)
                              \cup (IF hasBin THEN mine ELSE {})
         IN  /\ fs' = populated
             /\ LocateAndRun(populated, Append(events, [op |-> "execExit", ok |-> TRUE]))
    /\ UNCHANGED <<win32, args>>

\* the install exits zero, no history kept
InstallOk == InstallExitsZero /\ UNCHANGED installs

\* the install exits zero, and the history records it
InstallOkRecorded ==
    /\ InstallExitsZero
    /\ installs' = Recorded(installs, installDirOf(args), parsedOf(args).fullPackage, TRUE)

\* variant of InstallFail: the catch swallows the error and main goes on to
\* findBinary
InstallFailContinues ==
    /\ pc = "install"
    /\ \E partial \in BOOLEAN :
         LET left == IF partial THEN mkdirSync(fs, binDirOf(args)) ELSE fs
         IN  /\ fs' = left
             /\ LocateAndRun(left, Append(events, [op |-> "execExit", ok |-> FALSE]))
    /\ UNCHANGED <<win32, installs, args>>

\* variant of InstallFail: the catch removes the entry before it exits
InstallFailCleansUp ==
    /\ pc = "install"
    /\ fs' = rmSync(fs, installDirOf(args))
    /\ events' = events \o << [op |-> "execExit", ok |-> FALSE], ExitEv(1) >>
    /\ pc' = "exited"
    /\ UNCHANGED <<win32, installs, args>>

\* execSync throws: the install exited non-zero; catch, process.exit(1).
\* The failed install may have left a dependency tree behind.
InstallThrows ==
    /\ pc = "install"
    /\ \E partial \in BOOLEAN :
         fs' = IF partial THEN mkdirSync(fs, binDirOf(args)) ELSE fs
    /\ events' = events \o << [op |-> "execExit", ok |-> FALSE], ExitEv(1) >>
    /\ pc' = "exited"
    /\ UNCHANGED <<win32, args>>

\* the install exits non-zero, no history kept
InstallFail == InstallThrows /\ UNCHANGED installs

\* the install exits non-zero, and the history records it
InstallFailRecorded ==
    /\ InstallThrows
    /\ installs' = Recorded(installs, installDirOf(args), parsedOf(args).fullPackage, FALSE)

----------------------------------------------------------------------------
(* The spawned child (npx or the binary) *)

LastSpawn == events[Len(events)]

\* child.on('error'): the child could not be spawned
ChildError ==
    /\ pc = "child"
    /\ events' = events \o
         << [op |-> "childError"],
            Stderr(IF LastSpawn.target = "npx" THEN "error-executing-npx"
                   ELSE "error-executing-binary", <<>>),
            ExitEv(1) >>
    /\ pc' = "exited"
    /\ UNCHANGED <<win32, installs, fs, args>>

\* child.on('close'): the child ended with an exit code, or with none
ChildClose ==
    /\ pc = "child"
    /\ \E code \in {NullCode} \cup 0..MaxExit :
         events' = events \o << [op |-> "childClose", code |-> code],
                                ExitEv(closeStatus(code)) >>
    /\ pc' = "exited"
    /\ UNCHANGED <<win32, installs, fs, args>>

----------------------------------------------------------------------------

Init ==
    /\ win32 \in BOOLEAN
    /\ fs = {<<Home>>}
    /\ pc = "idle"
    /\ args = <<>>
    /\ events = <<>>
    /\ installs = NoInstalls

Next ==
    \/ Start
    \/ MainEmpty
    \/ MainVersion
    \/ MainClearCache
    \/ MainNoCandidate
    \/ MainNotScoped
    \/ MainInstall
    \/ MainCached
    \/ InstallOk
    \/ InstallFail
    \/ ChildError
    \/ ChildClose
    \/ Reap

Spec == Init /\ [][Next]_vars

----------------------------------------------------------------------------
(* Reading the events of the current invocation *)

Dispatched == pc \in {"install", "child", "exited"}

HasEv(o) == \E i \in DOMAIN events : events[i].op = o

NpxSpawns    == {i \in DOMAIN events : events[i].op = "spawn" /\ events[i].target = "npx"}

BinarySpawns == {i \in DOMAIN events : events[i].op = "spawn" /\ events[i].target = "binary"}

\* the tokens of a at the positions in P, in the order of a
RECURSIVE Pick(_, _, _)
Pick(a, P, i) ==
    IF i > Len(a) THEN <<>>
    ELSE (IF i \in P THEN <<a[i]>> ELSE <<>>) \o Pick(a, P, i + 1)

\* directory creation, manifest write, install, removal
TouchedCache == HasEv("mkdir") \/ HasEv("write") \/ HasEv("exec") \/ HasEv("rm")

ExitStatus == events[Len(events)].code

\* messages the dispatcher writes to the error stream about a failure
FailureMsgs ==
    {"install-failed", "binary-not-found", "looked-in",
     "error-executing-npx", "error-executing-binary"}

Diagnosed ==
    \E i \in DOMAIN events : events[i].op = "stderr" /\ events[i].msg \in FailureMsgs

\* the first token of remaining that does not begin with "-" exists and is
\* no scoped specifier
CandidateNotScoped(a) ==
    LET rem == remainingOf(a)
    IN  \E i \in DOMAIN rem :
          /\ ~StartsWith(rem[i], <<"-">>)
          /\ \A j \in 1..(i - 1) : StartsWith(rem[j], <<"-">>)
          /\ ~parsePackage(rem[i]).matched

\* remaining has no token that does not begin with "-"
NoCandidate(a) == \A i \in DOMAIN remainingOf(a) : StartsWith(remainingOf(a)[i], <<"-">>)

\* the passthrough outcome: npx spawned once with exactly a, no other child,
\* the cache untouched
PassedThrough(a) ==
    /\ Len(events) >= 1
    /\ events[1] = SpawnNpx(a)
    /\ NpxSpawns = {1}
    /\ BinarySpawns = {}
    /\ ~TouchedCache

----------------------------------------------------------------------------
(* C1 *)

----------------------------------------------------------------------------
(* C2 *)

\* C2: on the scoped path the binary receives exactly the tokens of remaining
\* after the specifier token, in order; ["@acme/tool", "--flag", "x"] gives
\* ["--flag", "x"].
C2_BinaryArgsAreSuffix ==
    \A i \in BinarySpawns :
        LET rem  == remainingOf(args)
            sent == events[i].args
        IN  \E k \in DOMAIN rem :
              /\ ~StartsWith(rem[k], <<"-">>)
              /\ \A j \in 1..(k - 1) : StartsWith(rem[j], <<"-">>)
              /\ parsePackage(rem[k]).matched
              /\ Len(sent) = Len(rem) - k
              /\ \A j \in DOMAIN sent : sent[j] = rem[k + j]
              /\ (args = <<T_acme_tool, T_flag, T_x>> => sent = <<T_flag, T_x>>)

\* no cache yet: the install runs, then the binary gets ["--flag", "x"]
C2_Witness ==
    /\ pc = "child"
    /\ args = <<T_acme_tool, T_flag, T_x>>
    /\ HasEv("exec")
    /\ BinarySpawns # {}
    /\ LastSpawn.args = <<T_flag, T_x>>

----------------------------------------------------------------------------
(* C3 *)

\* the exit of a passthrough invocation is the child's: its code, 0 for none,
\* 1 with the spawn diagnostic when npx could not be spawned
ExitIsChilds ==
    pc = "exited" =>
        \/ /\ Len(events) = 3
           /\ events[2].op = "childClose"
           /\ ExitStatus = (IF events[2].code = NullCode THEN 0 ELSE events[2].code)
        \/ /\ Len(events) = 4
           /\ events[2].op = "childError"
           /\ ExitStatus = 1

\* no error is reported for the missing candidate
NoDispatchError ==
    \A i \in DOMAIN events :
        events[i].op = "stderr" => events[i].msg = "error-executing-npx"

\* C3 as stated: an empty RawInvocation, or one whose remaining has no
\* candidate, goes to Passthrough with the complete RawInvocation, reports no
\* error and exits with the passthrough child's status.
C3_AsStated ==
    (Dispatched /\ (Len(args) = 0 \/ NoCandidate(args))) =>
        (PassedThrough(args) /\ NoDispatchError /\ ExitIsChilds)

\* C3, amended: the same for an empty RawInvocation and for one that does not
\* begin with a self-flag and whose remaining has no candidate.
C3_PassthroughNoCandidate ==
    (Dispatched /\ (Len(args) = 0 \/ (~FirstIsSelfFlag(args) /\ NoCandidate(args)))) =>
        (PassedThrough(args) /\ NoDispatchError /\ ExitIsChilds)

\* -c and its value x were classified as tool flags and --flag is no
\* candidate: npx gets all three tokens
C3_Witness ==
    /\ pc = "exited"
    /\ args = <<T_c, T_x, T_flag>>
    /\ npmFlagsOf(args) = <<T_c, T_x>>
    /\ PassedThrough(args)
    /\ events[2].op = "childClose"
    /\ ExitStatus = 2

----------------------------------------------------------------------------
(* C4 *)

\* C4: once a child (npx or the binary) is spawned, the exit status is the
\* child's code verbatim, 0 when it reports none, 1 when it could not be
\* spawned, and nothing else.
C4_ExitIsChildStatus ==
    (pc = "exited" /\ HasEv("spawn")) =>
        LET n == Len(events)
        IN  \/ /\ events[n - 1].op = "childClose"
               /\ events[n - 1].code # NullCode => ExitStatus = events[n - 1].code
               /\ events[n - 1].code = NullCode => ExitStatus = 0
               /\ events[n - 2].op = "spawn"
            \/ /\ events[n - 2].op = "childError"
               /\ ExitStatus = 1
               /\ events[n - 3].op = "spawn"

\* the binary ended with code 2 and so does the dispatcher
C4_Witness ==
    /\ pc = "exited"
    /\ BinarySpawns # {}
    /\ events[Len(events) - 1].op = "childClose"
    /\ events[Len(events) - 1].code = 2
    /\ ExitStatus = 2

----------------------------------------------------------------------------
(* C5 *)

\* the filesystem is as needsInstall saw it: the installer has not returned
FreshnessJustDecided ==
    /\ Dispatched
    /\ Len(events) >= 1
    /\ events[1].op = "needsInstall"
    /\ ~HasEv("execExit")

\* C5: needsInstall is true exactly when the entry's node_modules is absent
\* or the specifier token contains "@latest".
C5_FreshnessPolicy ==
    FreshnessJustDecided =>
        LET token  == remainingOf(args)[packageIndex(args)]
            absent == (installDirOf(args) \o <<NodeModules>>) \notin fs
        IN  events[1].result = (absent \/ Includes(token, AtLatest))

\* a populated entry is installed again for @acme/tool@latest
C5_Witness ==
    /\ pc = "install"
    /\ args[1] = T_acme_latest
    /\ events[1].op = "needsInstall" /\ events[1].result = TRUE
    /\ (installDirOf(args) \o <<NodeModules>>) \in fs
    /\ binFiles(installDirOf(args), parsedOf(args).binName) \subseteq fs

----------------------------------------------------------------------------
(* C6 *)

InstallFailed == \E i \in DOMAIN events : events[i].op = "execExit" /\ ~events[i].ok

\* C6: after the installer exits non-zero the invocation ends with status 1,
\* no binary and no passthrough tool was spawned, nothing was removed, and the
\* entry directory and its manifest are still on disk.
C6_InstallFailureIsFatal ==
    InstallFailed =>
        /\ pc = "exited"
        /\ ExitStatus = 1
        /\ ~HasEv("spawn")
        /\ ~HasEv("rm")
        /\ installDirOf(args) \in fs
        /\ pathJoin(installDirOf(args), PackageJson) \in fs

\* the failed install left a dependency tree, and it is still there
C6_Witness ==
    /\ InstallFailed
    /\ pc = "exited"
    /\ ExitStatus = 1
    /\ pathJoin(installDirOf(args), PackageJson) \in fs
    /\ pathJoin(installDirOf(args), NodeModules) \in fs

----------------------------------------------------------------------------
(* C7 *)

\* findBinary has run: the freshness check is over and no install is pending
\* or failed
Located ==
    /\ pc \in {"child", "exited"}
    /\ Len(events) >= 1
    /\ events[1].op = "needsInstall"
    /\ ~InstallFailed

\* no executable named binName in the entry's node_modules/.bin
NoExecutable == binFiles(installDirOf(args), parsedOf(args).binName) \cap fs = {}

\* C7: when no executable named baseName is in the entry's .bin directory
\* after any install step, no child is spawned, a diagnostic names the
\* searched directory, and the status is 1.
C7_BinaryNotFoundIsFatal ==
    (Located /\ NoExecutable) =>
        /\ pc = "exited"
        /\ ~HasEv("spawn")
        /\ \E i \in DOMAIN events :
             events[i] = Stderr("looked-in",
                                installDirOf(args) \o <<NodeModules, DotBin>>)
        /\ ExitStatus = 1

\* the install succeeded, the package has no such executable
C7_Witness ==
    /\ Located
    /\ NoExecutable
    /\ \E i \in DOMAIN events : events[i].op = "execExit" /\ events[i].ok
    /\ pc = "exited"
    /\ ExitStatus = 1

----------------------------------------------------------------------------
(* C8 *)

\* the dispatcher ended on one of its own fatal paths: status 1 that is not a
\* child's exit code
FatalExit ==
    /\ pc = "exited"
    /\ ExitStatus = 1
    /\ ~HasEv("childClose")

\* C8 as stated: every fatal path (install failure, binary not found, spawn
\* failure) writes a diagnostic about the failure to the error stream before
\* it ends with status 1.
C8_EveryFatalPathDiagnosed == FatalExit => Diagnosed

----------------------------------------------------------------------------
(* C9 *)

ClearCacheCalled == pc = "main" /\ Len(args) > 0 /\ args[1] = T_clear

\* C9: with --ghpx-clear-cache first, the step removes the cache root and all
\* below it when it exists, changes nothing else, exits 0 and starts neither
\* the installer nor npx nor a binary, whatever follows the flag.
C9_ClearCache ==
    [][ClearCacheCalled =>
         /\ fs' = {q \in fs : ~IsPrefix(<<Home, CacheName>>, q)}
         /\ pc' = "exited"
         /\ events'[Len(events')] = ExitEv(0)
         /\ \A i \in DOMAIN events' : events'[i].op \notin {"exec", "spawn", "mkdir", "write"}
      ]_vars

\* a populated cache was removed although a scoped specifier followed the flag
C9_Witness ==
    /\ pc = "exited"
    /\ args = <<T_clear, T_acme_tool, T_x>>
    /\ HasEv("rm")
    /\ <<Home, CacheName>> \notin fs
    /\ ExitStatus = 0

----------------------------------------------------------------------------
(* C10 *)

ScopedTokens == {t \in Tokens : parsePackage(t).matched}

\* the entry of token t serves a binary: a scoped invocation installed it
Serves(f, t) ==
    findBinary(f, getInstallDir(parsePackage(t).scope, parsePackage(t).pkgNameWithVersion),
               parsePackage(t).binName) # NoPath

\* C10 as stated: after a cache-clear invocation, needsInstall is true for
\* every specifier the parser accepts whose entry had been cached.
C10_ClearedMeansStale ==
    [][ClearCacheCalled =>
         \A t \in ScopedTokens :
             Serves(fs, t) =>
                 needsInstall(fs', getInstallDir(parsePackage(t).scope,
                                                 parsePackage(t).pkgNameWithVersion), t)
      ]_vars

----------------------------------------------------------------------------
(* C15 *)

EvIndices(o) == {i \in DOMAIN events : events[i].op = o}

ScopedRun == Len(events) >= 1 /\ events[1].op = "needsInstall"

\* C15: a scoped invocation checks freshness first, starts the installer
\* exactly once when the check said true and never when it said false, lets
\* it exit (zero) before the binary is located and spawned, spawns the binary
\* at most once and only from a path that exists, and never has two children
\* alive at once.
C15_ScopedOrder ==
    ScopedRun =>
        /\ EvIndices("needsInstall") = {1}
        /\ Cardinality(EvIndices("exec")) = (IF events[1].result THEN 1 ELSE 0)
        /\ Cardinality(EvIndices("execExit")) <= Cardinality(EvIndices("exec"))
        /\ \A e \in EvIndices("exec"), x \in EvIndices("execExit") : 1 < e /\ e < x
        /\ NpxSpawns = {}
        /\ Cardinality(BinarySpawns) <= 1
        /\ \A b \in BinarySpawns :
             /\ \A e \in EvIndices("exec") :
                  \E x \in EvIndices("execExit") : x < b /\ events[x].ok
             /\ events[b].path \in fs
             /\ events[b].path \in binFiles(installDirOf(args), parsedOf(args).binName)
        /\ (pc = "install") =>
               (EvIndices("exec") # {} /\ EvIndices("execExit") = {} /\ BinarySpawns = {})
        /\ (pc = "child") =>
               (BinarySpawns # {}
                /\ Cardinality(EvIndices("exec")) = Cardinality(EvIndices("execExit")))

\* freshness said true, the install ran and exited zero, the binary was
\* found, spawned and has ended
C15_Witness ==
    /\ pc = "exited"
    /\ ScopedRun
    /\ events[1].result
    /\ [i \in 1..Len(events) |-> events[i].op] =
           <<"needsInstall", "stderr", "mkdir", "write", "exec", "execExit", "spawn",
             "childClose", "exit">>

----------------------------------------------------------------------------
(* C16 *)

\* the directories an invocation created, wrote its manifest in, or ran the
\* install in
EntryDirsUsed ==
    {events[i].path : i \in EvIndices("mkdir")}
        \cup {events[i].cwd : i \in EvIndices("exec")}
        \cup {SubSeq(events[i].path, 1, Len(events[i].path) - 1) : i \in EvIndices("write")}

EntryOf(t) == getInstallDir(parsePackage(t).scope, parsePackage(t).pkgNameWithVersion)

\* C16 as stated: the entry directory of every accepted token is
\* <cacheRoot>/<scope>/<baseName>, two levels below the cache root; nothing is
\* created, written or installed outside the cache root; different
\* (scope, baseName) pairs have different directories.
C16_EntryUnderCacheRoot ==
    /\ \A d \in EntryDirsUsed :
         /\ IsPrefix(<<Home, CacheName>>, d)
         /\ d = <<Home, CacheName, parsedOf(args).scope, parsedOf(args).binName>>
    /\ \A t, u \in ScopedTokens :
         (parsePackage(t).scope # parsePackage(u).scope
            \/ parsePackage(t).binName # parsePackage(u).binName) => EntryOf(t) # EntryOf(u)

----------------------------------------------------------------------------
(* C19 *)

\* C19: the binary is sent every token of remaining but the specifier token,
\* the tokens before the specifier included; no token of remaining is lost.
C19_NoRemainingArgLost ==
    \A b \in BinarySpawns :
        events[b].args =
            Pick(remainingOf(args),
                 (1..Len(remainingOf(args))) \ {packageIndex(args)}, 1)

----------------------------------------------------------------------------
(* parsePackage on its own: every token over a small alphabet, up to       *)
(* MaxTokenLen characters, is handed to the parser once                    *)

Alphabet == {"@", "/", "a", "b"}

ParserInputs == SeqsUpTo(Alphabet, MaxTokenLen) \ {<<>>}

InitParse ==
    /\ win32 = FALSE
    /\ fs = {<<Home>>}
    /\ pc = "idle"
    /\ args \in {<<t>> : t \in ParserInputs}
    /\ events = <<>>
    /\ installs = NoInstalls

\* const parsed = parsePackage(packageInfo.value)
Parse ==
    /\ pc = "idle"
    /\ events' = <<[op |-> "parsePackage", result |-> parsePackage(args[1])]>>
    /\ pc' = "parsed"
    /\ UNCHANGED <<win32, installs, fs, args>>

NextParse == Parse

SpecParse == InitParse /\ [][NextParse]_vars

Parsed == pc = "parsed" /\ events[1].result.matched

HasChar(str, c) == \E i \in DOMAIN str : str[i] = c

\* token is "@" s "/" n "@" v with the "/" at position k1 and the second "@"
\* at position k2: s has no "/", n has no "@", none of the three is empty
IsScopedWithVersion(token, k1, k2) ==
    /\ Len(token) >= 1 /\ token[1] = "@"
    /\ 2 < k1 /\ k1 + 1 < k2 /\ k2 < Len(token)
    /\ token[k1] = "/" /\ token[k2] = "@"
    /\ ~HasChar(SubSeq(token, 2, k1 - 1), "/")
    /\ ~HasChar(SubSeq(token, k1 + 1, k2 - 1), "@")

----------------------------------------------------------------------------
(* C11 *)

\* C11 as stated: for every token @s/n@v the parser yields scope = s,
\* baseName = n, versionQualifier = @v, and scope + "/" + baseName +
\* versionQualifier equals the token.
C11_AsStated ==
    pc = "parsed" =>
        \A k1, k2 \in 1..Len(args[1]) :
            IsScopedWithVersion(args[1], k1, k2) =>
                LET r == events[1].result
                    s == SubSeq(args[1], 2, k1 - 1)
                    n == SubSeq(args[1], k1 + 1, k2 - 1)
                    v == SubSeq(args[1], k2, Len(args[1]))
                IN  /\ r.matched
                    /\ r.scope = s /\ r.binName = n /\ r.pkgNameWithVersion = n \o v
                    /\ r.scope \o <<"/">> \o r.pkgNameWithVersion = args[1]

\* C11, amended: for every token @s/n@v the parser yields scope = s (without
\* the "@"), baseName = n, versionQualifier = @v, and "@" + scope + "/" +
\* baseName + versionQualifier equals the token.
C11_ParseRoundTrip ==
    pc = "parsed" =>
        \A k1, k2 \in 1..Len(args[1]) :
            IsScopedWithVersion(args[1], k1, k2) =>
                LET r == events[1].result
                    s == SubSeq(args[1], 2, k1 - 1)
                    n == SubSeq(args[1], k1 + 1, k2 - 1)
                    v == SubSeq(args[1], k2, Len(args[1]))
                IN  /\ r.matched
                    /\ r.scope = s /\ r.binName = n /\ r.pkgNameWithVersion = n \o v
                    /\ <<"@">> \o r.scope \o <<"/">> \o r.pkgNameWithVersion = args[1]

\* @a/b@a is parsed into a, b and @a
C11_Witness ==
    /\ Parsed
    /\ args[1] = <<"@", "a", "/", "b", "@", "a">>
    /\ events[1].result.scope = <<"a">>
    /\ events[1].result.binName = <<"b">>
    /\ events[1].result.pkgNameWithVersion = <<"b", "@", "a">>

----------------------------------------------------------------------------
(* C12 *)

\* token has the shape @<scope>/<baseName>[@<qualifier>]: scope not empty and
\* without "/", baseName not empty and without "/" and "@"
WellShaped(token) ==
    /\ Len(token) >= 1 /\ token[1] = "@"
    /\ \E k1 \in 3..Len(token) :
         /\ token[k1] = "/"
         /\ ~HasChar(SubSeq(token, 2, k1 - 1), "/")
         /\ \E e \in (k1 + 1)..Len(token) :        \* baseName is token[k1+1..e]
              /\ ~HasChar(SubSeq(token, k1 + 1, e), "/")
              /\ ~HasChar(SubSeq(token, k1 + 1, e), "@")
              /\ \/ e = Len(token)
                 \/ (token[e + 1] = "@" /\ e + 1 < Len(token))

\* C12 as stated: the parser matches a token only if it has the shape
\* @<scope>/<baseName>[@<qualifier>] with baseName free of "/" and "@"; every
\* other token is no match.
C12_MatchesOnlyWellShaped ==
    pc = "parsed" => (events[1].result.matched => WellShaped(args[1]))

----------------------------------------------------------------------------
(* extractNpmFlags and the install flags on their own: every argument list *)
(* of up to MaxFlagArgs tokens is classified once, then filtered as        *)
(* installPackage filters it                                               *)

T_loglevel    == <<"-","-","l","o","g","l","e","v","e","l">>
T_loglevel_eq == <<"-","-","l","o","g","l","e","v","e","l","=","i","n","f","o">>
T_q           == <<"-","q">>
T_silent      == <<"s","i","l","e","n","t">>

FlagTokens == {T_c, T_loglevel, T_loglevel_eq, T_q, T_silent, T_flag, T_acme_tool}

InitClassify ==
    /\ win32 = FALSE
    /\ fs = {<<Home>>}
    /\ pc = "idle"
    /\ args \in SeqsUpTo(FlagTokens, MaxFlagArgs)
    /\ events = <<>>
    /\ installs = NoInstalls

\* const { npmFlags, remainingArgs } = extractNpmFlags(args)
Classify ==
    /\ pc = "idle"
    /\ events' = <<[op |-> "extractNpmFlags",
                    npmFlags |-> extractNpmFlags(args).npmFlags,
                    remainingArgs |-> extractNpmFlags(args).remainingArgs]>>
    /\ pc' = "classified"
    /\ UNCHANGED <<win32, installs, fs, args>>

\* const installFlags = npmFlags.filter(...)
FilterInstallFlags ==
    /\ pc = "classified"
    /\ events' = Append(events, [op |-> "installFlags",
                                 flags |-> installFlags(events[1].npmFlags)])
    /\ pc' = "filtered"
    /\ UNCHANGED <<win32, installs, fs, args>>

NextClassify == Classify \/ FilterInstallFlags

SpecClassify == InitClassify /\ [][NextClassify]_vars

----------------------------------------------------------------------------
(* C13 *)

\* C13: the positions of RawInvocation split into two sets, toolFlags is
\* RawInvocation at the one and remaining is RawInvocation at the other, each
\* in the original order: nothing dropped, nothing duplicated.
C13_ClassifierPartitions ==
    pc = "classified" =>
        \E F \in SUBSET (1..Len(args)) :
            /\ events[1].npmFlags = Pick(args, F, 1)
            /\ events[1].remainingArgs = Pick(args, (1..Len(args)) \ F, 1)
            /\ Len(events[1].npmFlags) + Len(events[1].remainingArgs) = Len(args)

\* three tokens, one of them a value taken by -c, split two and one
C13_Witness ==
    /\ pc = "classified"
    /\ args = <<T_flag, T_c, T_silent>>
    /\ events[1].npmFlags = <<T_c, T_silent>>
    /\ events[1].remainingArgs = <<T_flag>>

----------------------------------------------------------------------------
(* C14 *)

\* position i holds the value of the takes-value flag before it
RECURSIVE TakenAsValue(_, _)
TakenAsValue(a, i) ==
    i > 1 /\ a[i - 1] \in flagsWithValues /\ ~TakenAsValue(a, i - 1)

\* positions that belong to toolFlags: the values taken, and the tokens that
\* are flags in their own right
FlagPositions(a) ==
    {i \in 1..Len(a) :
        \/ TakenAsValue(a, i)
        \/ a[i] \in flagsWithValues
        \/ a[i] \in standaloneFlags
        \/ StartsWith(a[i], LoglevelEq)}

\* C14: a takes-value flag takes itself and the next token into toolFlags
\* whatever that token is, the token taken is not classified itself, and a
\* takes-value flag in last position is recorded alone.
C14_TakesValueFlags ==
    pc = "classified" =>
        /\ events[1].npmFlags = Pick(args, FlagPositions(args), 1)
        /\ events[1].remainingArgs = Pick(args, (1..Len(args)) \ FlagPositions(args), 1)
        /\ \A i \in 1..Len(args) :
             (args[i] \in flagsWithValues /\ ~TakenAsValue(args, i)) =>
                 LET j == Cardinality({k \in FlagPositions(args) : k < i}) + 1
                 IN  /\ events[1].npmFlags[j] = args[i]
                     /\ i < Len(args) => events[1].npmFlags[j + 1] = args[i + 1]
                     /\ i = Len(args) => Len(events[1].npmFlags) = j

\* -c takes --loglevel, which then takes nothing: the specifier stays in
\* remaining
C14_Witness ==
    /\ pc = "classified"
    /\ args = <<T_c, T_loglevel, T_acme_tool>>
    /\ events[1].npmFlags = <<T_c, T_loglevel>>
    /\ events[1].remainingArgs = <<T_acme_tool>>

----------------------------------------------------------------------------
(* C20 *)

IsVerbosityFlag(t) ==
    \/ t \in { <<"-","-","v","e","r","b","o","s","e">>, <<"-","d">>, <<"-","d","d">>,
               <<"-","d","d","d">>, <<"-","q">>, <<"-","-","q","u","i","e","t">>,
               <<"-","-","s","i","l","e","n","t">>, T_loglevel }
    \/ StartsWith(t, LoglevelEq)

\* the verbosity flags given as flags, and the value after each --loglevel
VerbosityPositions(a) ==
    {i \in 1..Len(a) :
        \/ (~TakenAsValue(a, i) /\ IsVerbosityFlag(a[i]))
        \/ (TakenAsValue(a, i) /\ a[i - 1] = T_loglevel)}

\* C20 as stated: the flags appended to the install command are the verbosity
\* flags supplied as flags, each with its value: no token taken as the value
\* of another flag, and the value of --loglevel right after it.
C20_InstallFlagsAreVerbosityFlags ==
    pc = "filtered" =>
        events[2].flags = Pick(args, VerbosityPositions(args), 1)


----------------------------------------------------------------------------
(* Several invocations on one cache entry, with the install history kept *)

MaxCacheArgs == 1

T_acme_v1 == <<"@","a","c","m","e","/","t","o","o","l","@","1">>
T_acme_v2 == <<"@","a","c","m","e","/","t","o","o","l","@","2">>

CacheTokens ==
    {T_acme_tool, T_acme_latest, T_acme_v1, T_acme_v2, T_flag, T_x, T_clear, T_version}

CacheInvocations == SeqsUpTo(CacheTokens, MaxCacheArgs)

StartCache ==
    /\ pc = "idle"
    /\ args' \in CacheInvocations
    /\ pc' = "main"
    /\ UNCHANGED <<win32, installs, fs, events>>

NextCache ==
    \/ StartCache
    \/ MainEmpty
    \/ MainVersion
    \/ MainClearCache
    \/ MainNoCandidate
    \/ MainNotScoped
    \/ MainInstall
    \/ MainCached
    \/ InstallOkRecorded
    \/ InstallFailRecorded
    \/ ChildError
    \/ ChildClose
    \/ Reap

SpecCache == Init /\ [][NextCache]_vars

\* the version qualifier of an accepted token: "@..." or empty
Qualifier(t) ==
    SubSeq(parsePackage(t).pkgNameWithVersion,
           Len(parsePackage(t).binName) + 1, Len(parsePackage(t).pkgNameWithVersion))

FixedVersion(t) == Qualifier(t) # <<>> /\ Qualifier(t) # AtLatest

\* C17: the binary runs for a specifier with a fixed version qualifier only
\* from an entry whose latest install was of a specifier with that qualifier.
C17_FixedVersionServedByOwnInstall ==
    \A b \in BinarySpawns :
        FixedVersion(parsedOf(args).fullPackage) =>
            /\ installDirOf(args) \in DOMAIN installs
            /\ Qualifier(installs[installDirOf(args)].packageArg)
                   = Qualifier(parsedOf(args).fullPackage)

\* C18: the binary runs only from an entry whose latest install exited zero,
\* and a scoped invocation skips the install only in such an entry.
C18_RunsOnlyAfterInstallSucceeded ==
    /\ \A b \in BinarySpawns :
         /\ installDirOf(args) \in DOMAIN installs
         /\ installs[installDirOf(args)].ok
    /\ (ScopedRun /\ ~events[1].result) =>
         /\ installDirOf(args) \in DOMAIN installs
         /\ installs[installDirOf(args)].ok

====
